---- MODULE Spec2Model ----
(***************************************************************************)
(* Model of the Waypoint widget (src/src/App.tsx) and of its configuration *)
(* module (src/unnamed/part_000): the location-sync loop, the map handle   *)
(* and its two line layers, and the tracking toggle.                       *)
(*                                                                         *)
(* Coordinates are integers counting tenths of a degree.  Time is counted  *)
(* in minutes.                                                             *)
(***************************************************************************)
EXTENDS Integers, Sequences, FiniteSets, TLC

VARIABLES
    config,           \* process.env and the configuration module's evaluation
    library,          \* what the page's map library provides: whether a marker
                      \* element has update() and a GeoJSON source has getData()
    mapshareId,       \* environment.garmin.mapshareId, read at App.tsx:64
    currentLocation,  \* useState<Location>, App.tsx:30
    plannedRoute,     \* useState<Route | null>, App.tsx:35
    mapLoaded,        \* useState<boolean>, App.tsx:36
    map,              \* useState<any | null>, App.tsx:37
    isTracking,       \* useState<boolean>, App.tsx:38
    error,            \* useState<string | null>, App.tsx:39
    center,           \* viewport centre of the map instance
    markers,          \* _lngLat of the elements of class mapboxgl-marker, in order
    history,          \* coordinates of the "tracking-history" source
    routeData,        \* coordinates of the "route" source
    timer,            \* the repeating timer: "off" or "armed"
    elapsed,          \* minutes since the timer was armed or last fired
    ticks,            \* calls of fetchGarminLocation suspended at an await, each
                      \* with the map handle of its closure and its age in minutes
    fetchCalls,       \* number of calls of fetch() so far
    nStarted,         \* number of calls of fetchGarminLocation so far
    nFailed,          \* number of calls that ended by reporting an error
    nOkNoMap,         \* number of successful calls whose callback held map = null
    lastTick,         \* how the call that ended last ended
    uptime,           \* minutes tracked since tracking was last started, up to
                      \* TRACKING_INTERVAL
    sessionTicked     \* fetchGarminLocation was called since tracking was last started

\* The state of the widget.
appVars == <<library, mapshareId, currentLocation, plannedRoute, mapLoaded, map, isTracking,
             error, center, markers, history, routeData, timer, elapsed, ticks,
             fetchCalls, nStarted, nFailed, nOkNoMap, lastTick, uptime,
             sessionTicked>>

vars == <<config, appVars>>

\* The state a sync tick may write besides the error slot.
tickTargets == <<currentLocation, center, markers, history>>

----------------------------------------------------------------------------
\* Bounds of the model.

MaxTicks == 2

----------------------------------------------------------------------------
\* Values.

NULL == "null"

TRACKING_INTERVAL == 2

INITIAL_CENTER == <<-745, 400>>

\* What App.tsx:64 may read as environment.garmin.mapshareId: unset (written
\* "") or an identifier.  The configuration module of this source exports no
\* such field (ConfiguredMapshareId): Spec ranges over both values, CodeSpec
\* is the widget under the configuration module as it is.
MapshareIds == {"", "abc123"}

\* The map libraries of the model: the elements of class mapboxgl-marker
\* have an update method or not, the GeoJSON sources a getData method or not.
Libraries == [markerUpdate : BOOLEAN, getData : BOOLEAN]

\* The messages of the TypeError a call of a missing method throws.
MSG_NO_UPDATE == "markers[0].update is not a function"
MSG_NO_GET_DATA == "source.getData is not a function"

\* Comma-separated components a coordinates text may hold: the first
\* (longitude) ones, the second (latitude) ones, and all of them.
LngTokens == {"0.1", "abc"}
LatTokens == {"0.2", "abc", ""}
CoordTokens == LngTokens \cup LatTokens

\* Third (altitude) components of the model's coordinates texts.
AltTokens == {"0.1", "abc"}

\* Texts a TimeStamp/when node may hold.
WhenTokens == {"2024-01-01T00:00:00Z"}

Routes == {[name |-> "loop", coordinates |-> <<<<1, 1>>, <<0, 1>>>>],
           [name |-> "empty", coordinates |-> <<>>]}

ERR_NO_ID == "MapShare ID not configured in environment"
ERR_NETWORK == "Failed to fetch location: Failed to fetch"
ERR_STATUS == "Failed to fetch location: Failed to fetch location data"
ERR_NO_PLACEMARK == "Failed to fetch location: No location data found"
ERR_STRUCTURE == "Failed to fetch location: Invalid KML data structure"
ERR_COORDINATES == "Failed to fetch location: Invalid coordinates in KML"

\* plannedRoute = null is written as the record NO_ROUTE.
NO_ROUTE == [name |-> NULL, coordinates |-> <<>>]

\* useState initial value of currentLocation.
INITIAL_LOCATION == [lat |-> 0, lng |-> 0, timestamp |-> NULL]

----------------------------------------------------------------------------
\* The configuration module.

\* process.env[key] of a key that is not set.  An absent defaultValue
\* argument is undefined too.
UNDEFINED == "undefined"

\* The keys the module reads, and what process.env may hold for each.
EnvKeys == {"MAPBOX_TOKEN", "GARMIN_MAPSHARE_URL"}
EnvValues == {UNDEFINED, "", "pk.token", "https://feed.example"}
Envs == [EnvKeys -> EnvValues]

DEFAULT_MAPSHARE_URL == "https://share.garmin.com/feed/share"

\* defaultValue arguments of the model's calls of getEnv.
DefaultValues == {UNDEFINED, "", DEFAULT_MAPSHARE_URL}

\* !x of a string or undefined.
Falsy(x) == x = UNDEFINED \/ x = ""

Thrown(message) == [threw |-> TRUE, message |-> message, value |-> UNDEFINED]
Returned(value) == [threw |-> FALSE, message |-> "", value |-> value]

\* Lines 16-22.
getEnv(env, key, defaultValue) ==
    LET value == env[key]
    IN  IF Falsy(value) /\ defaultValue = UNDEFINED
        THEN Thrown("Environment variable " \o key \o " is not set")
        ELSE Returned(IF ~Falsy(value) THEN value
                      ELSE IF ~Falsy(defaultValue) THEN defaultValue
                      ELSE "")

\* Lines 24-34: the exported object, or the error its evaluation throws.
environment(env) ==
    LET token == getEnv(env, "MAPBOX_TOKEN", UNDEFINED)
        mapshareBaseUrl == getEnv(env, "GARMIN_MAPSHARE_URL", DEFAULT_MAPSHARE_URL)
    IN  IF token.threw
        THEN [threw |-> TRUE, message |-> token.message,
              token |-> UNDEFINED, mapshareBaseUrl |-> UNDEFINED]
        ELSE [threw |-> FALSE, message |-> "",
              token |-> token.value, mapshareBaseUrl |-> mapshareBaseUrl.value]

\* The module before its evaluation, under the environment env.
NOT_CALLED == [threw |-> FALSE, message |-> "", value |-> UNDEFINED]
NOT_LOADED == [threw |-> FALSE, message |-> "",
               token |-> UNDEFINED, mapshareBaseUrl |-> UNDEFINED]

Unevaluated(env) ==
    [env |-> env, pc |-> "start", key |-> UNDEFINED, defaultValue |-> UNDEFINED,
     result |-> NOT_CALLED, environment |-> NOT_LOADED]

\* One call getEnv(key, defaultValue).
CalledGetEnv(c, key, defaultValue) ==
    [c EXCEPT !.pc = "called", !.key = key, !.defaultValue = defaultValue,
              !.result = getEnv(c.env, key, defaultValue)]

\* The evaluation of the module: the export is set, or startup aborts.
LoadedEnvironment(c) ==
    LET e == environment(c.env)
    IN  [c EXCEPT !.pc = IF e.threw THEN "aborted" ELSE "loaded",
                  !.environment = e]

\* App.tsx:64 on the exported object e: environment.garmin.mapshareId.  A
\* property the object does not have reads as undefined, which is unset ("").
ConfiguredMapshareId(e) ==
    IF "mapshareId" \in DOMAIN e THEN e.mapshareId ELSE ""

\* The environments under which the module's evaluation does not abort.
LoadableEnvs == {env \in Envs : ~environment(env).threw}

\* The environment the widget of the model runs under.
APP_ENV == [k \in EnvKeys |-> IF k = "MAPBOX_TOKEN" THEN "pk.token" ELSE UNDEFINED]

----------------------------------------------------------------------------
\* The feed document.

\* A number of JavaScript: NaN, or a value in tenths of a degree.
NaN == [nan |-> TRUE, val |-> 0]
Num(v) == [nan |-> FALSE, val |-> v]

\* Number(s) on a component of the coordinates text: the empty string
\* converts to 0, a decimal literal to its value, other text to NaN.
Number(s) ==
    CASE s = "" -> Num(0)
      [] s = "0.1" -> Num(1)
      [] s = "0.2" -> Num(2)
      [] OTHER -> NaN

isNaN(x) == x.nan

\* new Date(text): the instant an ISO-8601 text names, else an Invalid Date.
NewDate(s) ==
    IF s = "2024-01-01T00:00:00Z" THEN "2024-01-01T00:00:00.000Z"
    ELSE "Invalid Date"

\* coordinates.split(","): the model holds a coordinates text as the
\* sequence of its comma-separated components (at least one, as split gives).
\* The texts of the model have one, two ("lon,lat") or three ("lon,lat,alt")
\* components.
CoordTexts ==
    {<<a>> : a \in LngTokens}
    \cup {<<a, b>> : a \in LngTokens, b \in LatTokens}
    \cup {<<a, b, c>> : a \in LngTokens, b \in LatTokens, c \in AltTokens}

\* Response bodies: the parsed document has a Placemark or not; the
\* Placemark has a coordinates element or not, and a TimeStamp/when element
\* or not.
Document(placemark, hasCoordinates, coordinates, hasWhen, when) ==
    [placemark |-> placemark, hasCoordinates |-> hasCoordinates,
     coordinates |-> coordinates, hasWhen |-> hasWhen, when |-> when]

NO_PLACEMARK == Document(FALSE, FALSE, <<"">>, FALSE, "")

\* The bodies of the model: every coordinates text with a well-formed
\* timestamp, the "lon,lat" texts with every timestamp text, and documents
\* that lack the Placemark, the coordinates element or the when element.
Bodies ==
    {NO_PLACEMARK}
    \cup {Document(TRUE, TRUE, c, TRUE, "2024-01-01T00:00:00Z") : c \in CoordTexts}
    \cup {Document(TRUE, TRUE, <<a, b>>, TRUE, w) :
             a \in LngTokens, b \in LatTokens, w \in WhenTokens}
    \cup {Document(TRUE, FALSE, <<"">>, TRUE, w) : w \in WhenTokens}
    \cup {Document(TRUE, TRUE, <<a, b>>, FALSE, "") :
             a \in LngTokens, b \in LatTokens}
    \cup {Document(TRUE, FALSE, <<"">>, FALSE, "")}

ParseFailure(message) ==
    [ok |-> FALSE, message |-> message, lng |-> 0, lat |-> 0, timestamp |-> NULL]

\* Variant of ParseKml: the components are destructured as [lat, lng].
ParseKmlSwapped(body) ==
    IF ~body.placemark THEN ParseFailure("No location data found")
    ELSE IF ~body.hasCoordinates \/ ~body.hasWhen
    THEN ParseFailure("Invalid KML data structure")
    ELSE LET parts == body.coordinates
             lat == Number(parts[1])
             lng == IF Len(parts) >= 2 THEN Number(parts[2]) ELSE NaN
             timestamp == NewDate(body.when)
         IN  IF isNaN(lat) \/ isNaN(lng)
             THEN ParseFailure("Invalid coordinates in KML")
             ELSE [ok |-> TRUE, message |-> "", lng |-> lng.val,
                   lat |-> lat.val, timestamp |-> timestamp]

\* Lines 77-96 of fetchGarminLocation: the result of parsing a body, or the
\* message of the Error thrown.
ParseKml(body) ==
    IF ~body.placemark THEN ParseFailure("No location data found")
    ELSE IF ~body.hasCoordinates \/ ~body.hasWhen
    THEN ParseFailure("Invalid KML data structure")
    ELSE LET parts == body.coordinates
             lng == Number(parts[1])
             \* a missing second component is undefined, and isNaN(undefined)
             lat == IF Len(parts) >= 2 THEN Number(parts[2]) ELSE NaN
             timestamp == NewDate(body.when)
         IN  IF isNaN(lat) \/ isNaN(lng)
             THEN ParseFailure("Invalid coordinates in KML")
             ELSE [ok |-> TRUE, message |-> "", lng |-> lng.val,
                   lat |-> lat.val, timestamp |-> timestamp]

\* The message the catch block of fetchGarminLocation puts in the error
\* slot (lines 130-132); what is thrown is always an Error.
CatchMessage(message) == "Failed to fetch location: " \o message

----------------------------------------------------------------------------
\* The sync tick: fetchGarminLocation, lines 63-134.

\* Variant of MapshareIdMissing: the check compares with null only.
MapshareIdIsNull(id) == id = NULL

\* Line 66: !mapshareId.
MapshareIdMissing(id) == id = ""

\* Line 73: !response.ok, for a response that arrived.
ResponseNotOk(status) == status # "ok"

\* Variant of MapPresent: the map handle is used unguarded.
MapAssumed(m) == TRUE

\* Line 101: if (map), on the map handle of the callback's closure.
MapPresent(m) == m # NULL

\* Variant of NewCoordinates: a point equal to the last one is not repeated.
NewCoordinatesDeduplicating(existing, lng, lat) ==
    IF existing # <<>> /\ existing[Len(existing)] = <<lng, lat>>
    THEN existing
    ELSE Append(existing, <<lng, lat>>)

\* Variant of NewCoordinates: the new point is put first.
NewCoordinatesPrepending(existing, lng, lat) == <<<<lng, lat>>>> \o existing

\* Lines 113-116: the coordinate list written back to the source.
NewCoordinates(existing, lng, lat) == Append(existing, <<lng, lat>>)

\* Lines 103-105: the _lngLat of the first marker element, when there is
\* one, is set.
MovedMarkers(ms, lng, lat) ==
    IF Len(ms) >= 1 THEN [ms EXCEPT ![1] = <<lng, lat>>] ELSE ms

\* How a call ended: its outcome, the map its callback held, whether the
\* loop was idle by then, and whether another call was in flight beside it.
Ended(outcome, t) ==
    [outcome |-> outcome, map |-> t.map, idle |-> ~isTracking,
     overlapped |-> Len(ticks) > 1]

RemoveAt(s, i) == SubSeq(s, 1, i - 1) \o SubSeq(s, i + 1, Len(s))

\* Lines 63-72: the synchronous start of a call, up to the first await.
BeginTick ==
    /\ nStarted' = nStarted + 1
    /\ sessionTicked' = TRUE
    /\ IF MapshareIdMissing(mapshareId)
       THEN /\ error' = ERR_NO_ID
            /\ nFailed' = nFailed + 1
            /\ lastTick' = Ended("noid", [map |-> map])
            /\ UNCHANGED <<ticks, fetchCalls>>
       ELSE /\ ticks' = Append(ticks, [pc |-> "fetch", map |-> map, age |-> 0])
            /\ fetchCalls' = fetchCalls + 1
            /\ UNCHANGED <<error, nFailed, lastTick>>
    /\ UNCHANGED <<tickTargets, nOkNoMap, isTracking, timer, routeData>>

\* Variant of CatchError: the catch block also resets the location.
CatchErrorResetting(i, message) ==
    /\ error' = CatchMessage(message)
    /\ ticks' = RemoveAt(ticks, i)
    /\ nFailed' = nFailed + 1
    /\ lastTick' = Ended("failed", ticks[i])
    /\ currentLocation' = INITIAL_LOCATION
    /\ UNCHANGED <<center, markers, history, nOkNoMap, isTracking, timer,
                   routeData>>

\* Variant of CatchError: an error also stops the loop.
CatchErrorStopping(i, message) ==
    /\ error' = CatchMessage(message)
    /\ ticks' = RemoveAt(ticks, i)
    /\ nFailed' = nFailed + 1
    /\ lastTick' = Ended("failed", ticks[i])
    /\ isTracking' = FALSE
    /\ timer' = "off"
    /\ UNCHANGED <<tickTargets, nOkNoMap, routeData>>

\* Lines 128-133: the catch block, ending call i.
CatchError(i, message) ==
    /\ error' = CatchMessage(message)
    /\ ticks' = RemoveAt(ticks, i)
    /\ nFailed' = nFailed + 1
    /\ lastTick' = Ended("failed", ticks[i])
    /\ UNCHANGED <<tickTargets, nOkNoMap, isTracking, timer, routeData>>

\* Line 106: the call of update on the first marker element throws when
\* there is such an element and it has no update method.  Line 105 has
\* written the element's _lngLat by then.
MarkerUpdateThrows(ms) == Len(ms) >= 1 /\ ~library.markerUpdate

\* Line 112: the call of getData on the "tracking-history" source throws when
\* the source has no getData method.
GetDataThrows == ~library.getData

\* Call i returns from the try block.
Completed(i) ==
    /\ ticks' = RemoveAt(ticks, i)
    /\ lastTick' = Ended("ok", ticks[i])
    /\ UNCHANGED nFailed

\* Lines 128-133, entered from lines 103-118: a map call of call i throws
\* after Location and the viewport centre have been written.
CatchMapError(i, message) ==
    /\ error' = CatchMessage(message)
    /\ ticks' = RemoveAt(ticks, i)
    /\ nFailed' = nFailed + 1
    /\ lastTick' = Ended("threw", ticks[i])

\* Variant of ApplyLocation: the error slot is not cleared.
ApplyLocationKeepingError(i, p) ==
    /\ currentLocation' = [lat |-> p.lat, lng |-> p.lng, timestamp |-> p.timestamp]
    /\ IF ~MapPresent(ticks[i].map)
       THEN /\ nOkNoMap' = nOkNoMap + 1
            /\ Completed(i)
            /\ UNCHANGED error
            /\ UNCHANGED <<center, markers, history>>
       ELSE /\ center' = <<p.lng, p.lat>>
            /\ UNCHANGED nOkNoMap
            /\ markers' = MovedMarkers(markers, p.lng, p.lat)
            /\ IF MarkerUpdateThrows(markers)
               THEN /\ CatchMapError(i, MSG_NO_UPDATE)
                    /\ UNCHANGED history
               ELSE /\ IF GetDataThrows
                       THEN /\ CatchMapError(i, MSG_NO_GET_DATA)
                            /\ UNCHANGED history
                       ELSE /\ history' = NewCoordinates(history, p.lng, p.lat)
                            /\ Completed(i)
                            /\ UNCHANGED error
    /\ UNCHANGED <<isTracking, timer, routeData>>

\* Variant of ApplyLocation: the point is appended to the "route" source.
ApplyLocationToRoute(i, p) ==
    /\ currentLocation' = [lat |-> p.lat, lng |-> p.lng, timestamp |-> p.timestamp]
    /\ IF ~MapPresent(ticks[i].map)
       THEN /\ nOkNoMap' = nOkNoMap + 1
            /\ Completed(i)
            /\ error' = NULL
            /\ UNCHANGED <<center, markers, routeData>>
       ELSE /\ center' = <<p.lng, p.lat>>
            /\ UNCHANGED nOkNoMap
            /\ markers' = MovedMarkers(markers, p.lng, p.lat)
            /\ IF MarkerUpdateThrows(markers)
               THEN /\ CatchMapError(i, MSG_NO_UPDATE)
                    /\ UNCHANGED routeData
               ELSE /\ IF GetDataThrows
                       THEN /\ CatchMapError(i, MSG_NO_GET_DATA)
                            /\ UNCHANGED routeData
                       ELSE /\ routeData' = NewCoordinates(routeData, p.lng, p.lat)
                            /\ Completed(i)
                            /\ error' = NULL
    /\ UNCHANGED <<isTracking, timer, history>>

\* Lines 98-127: the result of a parsed document is applied, ending call i
\* by its return or, when a map call throws, in the catch block.
ApplyLocation(i, p) ==
    /\ currentLocation' = [lat |-> p.lat, lng |-> p.lng, timestamp |-> p.timestamp]
    /\ IF ~MapPresent(ticks[i].map)
       THEN /\ nOkNoMap' = nOkNoMap + 1
            /\ Completed(i)
            /\ error' = NULL
            /\ UNCHANGED <<center, markers, history>>
       ELSE /\ center' = <<p.lng, p.lat>>
            /\ UNCHANGED nOkNoMap
            /\ markers' = MovedMarkers(markers, p.lng, p.lat)
            /\ IF MarkerUpdateThrows(markers)
               THEN /\ CatchMapError(i, MSG_NO_UPDATE)
                    /\ UNCHANGED history
               ELSE /\ IF GetDataThrows
                       THEN /\ CatchMapError(i, MSG_NO_GET_DATA)
                            /\ UNCHANGED history
                       ELSE /\ history' = NewCoordinates(history, p.lng, p.lat)
                            /\ Completed(i)
                            /\ error' = NULL
    /\ UNCHANGED <<isTracking, timer, routeData>>

\* Lines 72-73: the fetch of call i settles: it rejects, or resolves with a
\* response whose status is a success or not.
FetchSettles(i, status) ==
    /\ i \in 1..Len(ticks)
    /\ ticks[i].pc = "fetch"
    /\ IF status = "reject" THEN CatchError(i, "Failed to fetch")
       ELSE IF ResponseNotOk(status)
       THEN CatchError(i, "Failed to fetch location data")
       ELSE /\ ticks' = [ticks EXCEPT ![i].pc = "text"]
            /\ UNCHANGED <<error, tickTargets, nFailed, nOkNoMap, lastTick,
                           isTracking, timer, routeData>>
    /\ UNCHANGED <<config, library, mapshareId, plannedRoute, mapLoaded, map, elapsed,
                   fetchCalls, nStarted, uptime, sessionTicked>>

\* Lines 75-127: the body of call i arrives and is parsed and applied.
TextSettles(i, body) ==
    /\ i \in 1..Len(ticks)
    /\ ticks[i].pc = "text"
    /\ LET p == ParseKml(body)
       IN  IF p.ok THEN ApplyLocation(i, p) ELSE CatchError(i, p.message)
    /\ UNCHANGED <<config, library, mapshareId, plannedRoute, mapLoaded, map, elapsed,
                   fetchCalls, nStarted, uptime, sessionTicked>>

\* Line 75: reading the body of call i rejects.
TextRejects(i) ==
    /\ i \in 1..Len(ticks)
    /\ ticks[i].pc = "text"
    /\ CatchError(i, "Failed to fetch")
    /\ UNCHANGED <<config, library, mapshareId, plannedRoute, mapLoaded, map, elapsed,
                   fetchCalls, nStarted, uptime, sessionTicked>>

----------------------------------------------------------------------------
\* The map.

\* Variant of MapLoad: the tracking-history source is created with the
\* marker's position as its first coordinate.
MapLoadSeedingHistory ==
    /\ map = NULL
    /\ mapLoaded' = TRUE
    /\ map' = "mapInstance"
    /\ routeData' = <<>>
    /\ history' = <<<<INITIAL_LOCATION.lng, INITIAL_LOCATION.lat>>>>
    /\ markers' = <<<<INITIAL_LOCATION.lng, INITIAL_LOCATION.lat>>>>
    /\ UNCHANGED <<config, library, mapshareId, currentLocation, plannedRoute, isTracking, error,
                   center, timer, elapsed, ticks, fetchCalls, nStarted, nFailed,
                   nOkNoMap, lastTick, uptime, sessionTicked>>

\* Variant of MapLoad: the load handler sets Location to the viewport centre.
MapLoadSettingLocation ==
    /\ map = NULL
    /\ mapLoaded' = TRUE
    /\ map' = "mapInstance"
    /\ routeData' = <<>>
    /\ history' = <<>>
    /\ markers' = <<<<INITIAL_LOCATION.lng, INITIAL_LOCATION.lat>>>>
    /\ currentLocation' = [lat |-> center[2], lng |-> center[1], timestamp |-> NULL]
    /\ UNCHANGED <<config, library, mapshareId, plannedRoute, isTracking, error,
                   center, timer, elapsed, ticks, fetchCalls, nStarted, nFailed,
                   nOkNoMap, lastTick, uptime, sessionTicked>>

\* Lines 158-223: the load handler of the map instance.  The marker is
\* placed at currentLocation as initializeMap's closure holds it, which is
\* the first render's.
MapLoad ==
    /\ map = NULL
    /\ mapLoaded' = TRUE
    /\ map' = "mapInstance"
    /\ routeData' = <<>>
    /\ history' = <<>>
    /\ markers' = <<<<INITIAL_LOCATION.lng, INITIAL_LOCATION.lat>>>>
    /\ UNCHANGED <<config, library, mapshareId, currentLocation, plannedRoute, isTracking, error,
                   center, timer, elapsed, ticks, fetchCalls, nStarted, nFailed,
                   nOkNoMap, lastTick, uptime, sessionTicked>>

\* Route import: the component's handleFileUpload, for a file that parses.
UploadRoute(r) ==
    /\ plannedRoute' = r
    /\ routeData' = IF map # NULL THEN r.coordinates ELSE routeData
    /\ UNCHANGED <<config, library, mapshareId, currentLocation, mapLoaded, map, isTracking, error,
                   center, markers, history, timer, elapsed, ticks, fetchCalls,
                   nStarted, nFailed, nOkNoMap, lastTick, uptime, sessionTicked>>

----------------------------------------------------------------------------
\* The sync loop.

\* Variant of TimerEffect: the timer is never cancelled.
TimerNeverCancelled(tracking) == "armed"

\* The timer after the tracking flag has become `tracking`: armed on
\* Idle -> Tracking, cancelled on Tracking -> Idle.
TimerEffect(tracking) == IF tracking THEN "armed" ELSE "off"

\* Variant of ToggleTracking: stopping aborts the calls in flight.
ToggleTrackingAborting ==
    /\ isTracking' = ~isTracking
    /\ timer' = TimerEffect(~isTracking)
    /\ elapsed' = 0
    /\ uptime' = IF ~isTracking THEN 0 ELSE uptime
    /\ sessionTicked' = IF ~isTracking THEN FALSE ELSE sessionTicked
    /\ ticks' = IF isTracking THEN <<>> ELSE ticks
    /\ UNCHANGED <<config, library, mapshareId, currentLocation, plannedRoute, mapLoaded, map,
                   error, center, markers, history, routeData, fetchCalls,
                   nStarted, nFailed, nOkNoMap, lastTick>>

\* Lines 241-244: the toggle's onClick, with the timer following the flag.
ToggleTracking ==
    /\ isTracking' = ~isTracking
    /\ timer' = TimerEffect(~isTracking)
    /\ elapsed' = 0
    /\ uptime' = IF ~isTracking THEN 0 ELSE uptime
    /\ sessionTicked' = IF ~isTracking THEN FALSE ELSE sessionTicked
    /\ UNCHANGED <<config, library, mapshareId, currentLocation, plannedRoute, mapLoaded, map,
                   error, center, markers, history, routeData, ticks, fetchCalls,
                   nStarted, nFailed, nOkNoMap, lastTick>>

\* A minute passes, unless the armed timer is due.  Ages and uptime stop
\* counting at TRACKING_INTERVAL.
Aged(t) == [t EXCEPT !.age = IF @ < TRACKING_INTERVAL THEN @ + 1 ELSE @]

Clock ==
    /\ ~(timer = "armed" /\ elapsed = TRACKING_INTERVAL)
    /\ elapsed' = IF timer = "armed" THEN elapsed + 1 ELSE elapsed
    /\ uptime' = IF isTracking /\ uptime < TRACKING_INTERVAL
                  THEN uptime + 1 ELSE uptime
    /\ ticks' = [i \in DOMAIN ticks |-> Aged(ticks[i])]
    /\ UNCHANGED <<config, library, mapshareId, currentLocation, plannedRoute, mapLoaded, map,
                   isTracking, error, center, markers, history, routeData, timer,
                   fetchCalls, nStarted, nFailed, nOkNoMap, lastTick,
                   sessionTicked>>

\* The interval has elapsed: the timer calls fetchGarminLocation and runs on.
TimerFires ==
    /\ timer = "armed"
    /\ elapsed = TRACKING_INTERVAL
    /\ nStarted < MaxTicks
    /\ elapsed' = 0
    /\ BeginTick
    /\ UNCHANGED <<config, library, mapshareId, plannedRoute, mapLoaded, map, uptime>>

----------------------------------------------------------------------------

AppInit ==
    /\ library \in Libraries
    /\ mapshareId \in MapshareIds
    /\ currentLocation = INITIAL_LOCATION
    /\ plannedRoute = NO_ROUTE
    /\ mapLoaded = FALSE
    /\ map = NULL
    /\ isTracking = FALSE
    /\ error = NULL
    /\ center = INITIAL_CENTER
    /\ markers = <<>>
    /\ history = <<>>
    /\ routeData = <<>>
    /\ timer = "off"
    /\ elapsed = 0
    /\ ticks = <<>>
    /\ fetchCalls = 0
    /\ nStarted = 0
    /\ nFailed = 0
    /\ nOkNoMap = 0
    /\ lastTick = [outcome |-> "none", map |-> NULL, idle |-> TRUE,
                   overlapped |-> FALSE]
    /\ uptime = 0
    /\ sessionTicked = FALSE

\* The widget starts once the configuration module has been evaluated.
Init ==
    /\ config = LoadedEnvironment(Unevaluated(APP_ENV))
    /\ AppInit

\* The steps of the toggle, the timer, the calls in flight and the map.
LoopNext ==
    \/ ToggleTracking
    \/ Clock
    \/ TimerFires
    \/ \E i \in DOMAIN ticks, status \in {"reject", "notok", "ok"} :
          FetchSettles(i, status)
    \/ \E i \in DOMAIN ticks, body \in Bodies : TextSettles(i, body)
    \/ \E i \in DOMAIN ticks : TextRejects(i)
    \/ MapLoad

Next ==
    \/ LoopNext
    \/ \E r \in Routes : UploadRoute(r)

Spec == Init /\ [][Next]_vars

\* The sync loop without route imports, which touch none of its state: time
\* passes and a due timer fires.
LiveSpec == Init /\ [][LoopNext]_vars /\ WF_vars(Clock) /\ WF_vars(TimerFires)

----------------------------------------------------------------------------
\* The configuration module on its own, under every environment.

GetEnvCall(key, defaultValue) ==
    /\ config.pc = "start"
    /\ config' = CalledGetEnv(config, key, defaultValue)
    /\ UNCHANGED appVars

LoadEnvironment ==
    /\ config.pc = "start"
    /\ config' = LoadedEnvironment(config)
    /\ UNCHANGED appVars

EnvInit ==
    /\ config \in {Unevaluated(env) : env \in Envs}
    /\ AppInit

EnvNext ==
    \/ \E key \in EnvKeys, defaultValue \in DefaultValues :
          GetEnvCall(key, defaultValue)
    \/ LoadEnvironment

EnvSpec == EnvInit /\ [][EnvNext]_vars

----------------------------------------------------------------------------
\* The widget under the configuration module as it is: the module has been
\* evaluated without aborting, and the feed identifier is what App.tsx:64
\* reads from the exported object.

CodeInit ==
    /\ config \in {LoadedEnvironment(Unevaluated(env)) : env \in LoadableEnvs}
    /\ AppInit
    /\ mapshareId = ConfiguredMapshareId(config.environment)

\* With the identifier unset every call returns at line 68, so no call is
\* ever suspended at an await (ticks = <<>>) and the steps that settle a
\* fetch or a body, which need a call in flight, are never enabled.
CodeNext ==
    \/ ToggleTracking
    \/ Clock
    \/ TimerFires
    \/ MapLoad
    \/ \E r \in Routes : UploadRoute(r)

CodeSpec == CodeInit /\ [][CodeNext]_vars

----------------------------------------------------------------------------
\* Steps of the sync loop, as the counters show them.

\* Calls of fetchGarminLocation that have ended.
nEnded == nStarted - Len(ticks)

\* A call of fetchGarminLocation begins.
TickBegins == nStarted' = nStarted + 1

\* A call suspended at an await ends, by an error or by applying its result.
TickFails == Len(ticks') = Len(ticks) - 1 /\ nFailed' = nFailed + 1
TickSucceeds == Len(ticks') = Len(ticks) - 1 /\ nFailed' = nFailed

\* A call fails in fetch or parse, before line 98; or in a map call, after it.
TickFailsBeforeApply == TickFails /\ lastTick'.outcome = "failed"
TickFailsInMap == TickFails /\ lastTick'.outcome = "threw"

----------------------------------------------------------------------------
C2_MissingIdTick ==
    /\ [](mapshareId = "" => fetchCalls = 0 /\ ticks = <<>>)
    /\ [][(mapshareId = "" /\ TickBegins) =>
            /\ error' = ERR_NO_ID
            /\ nFailed' = nFailed + 1
            /\ UNCHANGED <<tickTargets, isTracking, timer>>
            /\ timer' = "armed"]_vars

C2_Witness ==
    /\ mapshareId = ""
    /\ nStarted = 2
    /\ nFailed = 2
    /\ error = ERR_NO_ID
    /\ isTracking
    /\ fetchCalls = 0

\* C3: a tick that fails in fetch or parse sets the error slot to a message
\* and leaves Location, the viewport centre, the marker and the tracking
\* history as they were.
C3_FailedTickFrame ==
    [][TickFailsBeforeApply => (error' # NULL /\ UNCHANGED tickTargets)]_vars

C3_Witness ==
    /\ lastTick.outcome = "failed"
    /\ error = ERR_COORDINATES
    /\ currentLocation.timestamp # NULL
    /\ Len(history) = 1
    /\ center = history[1]

\* C4: while less than one timer interval of tracking has passed since
\* tracking was last started, no tick has run since that start, and none runs
\* after tracking is stopped at such a moment.
C4_NoTickBeforeFirstInterval ==
    uptime < TRACKING_INTERVAL => ~sessionTicked

C4_Witness ==
    /\ ~isTracking
    /\ timer = "off"
    /\ uptime = 1
    /\ ~sessionTicked
    /\ fetchCalls = 0

\* C5: the loop is Idle or Tracking and only the toggle flips it; the timer
\* is armed exactly while the loop is Tracking, and a tick is started only
\* by the armed timer, while the loop is Tracking.
C5_TicksOnlyWhileTracking ==
    /\ [](timer = (IF isTracking THEN "armed" ELSE "off"))
    /\ [][isTracking' # isTracking => ToggleTracking]_vars
    /\ [][TickBegins => (isTracking /\ timer = "armed" /\ isTracking')]_vars

C5_Witness ==
    /\ ~isTracking
    /\ timer = "off"
    /\ uptime = TRACKING_INTERVAL
    /\ sessionTicked
    /\ nStarted = 1
    /\ fetchCalls = 1
    /\ elapsed = 0

\* C6: while the loop stays in Tracking, ticks keep being started: from every
\* state in which the loop tracks, whatever the outcome of the ticks so far,
\* a further tick is started unless the loop is stopped first (for as long
\* as the model counts ticks); and no tick, at its start or at its end,
\* changes the tracking flag or the timer.
C6_LoopKeepsTicking ==
    /\ \A n \in 0..(MaxTicks - 1) :
          (isTracking /\ nStarted = n) ~> (~isTracking \/ nStarted > n)
    /\ [][(TickBegins \/ TickFails \/ TickSucceeds) =>
            UNCHANGED <<isTracking, timer>>]_vars

C6_Witness ==
    /\ isTracking
    /\ nStarted = 2
    /\ nFailed = 1
    /\ lastTick.outcome = "failed"
    /\ ~lastTick.idle
    /\ Len(ticks) = 1
    /\ ticks[1].age = 0

\* C7: the error slot goes from a message to empty only in the step of a
\* successful tick, whatever other events occur, and every successful tick
\* leaves it empty.
C7_BannerClearedOnlyBySuccess ==
    /\ [][(error # NULL /\ error' = NULL) => TickSucceeds]_vars
    /\ [][TickSucceeds => error' = NULL]_vars

C7_Witness ==
    /\ lastTick.outcome = "ok"
    /\ error = NULL
    /\ nStarted = 2
    /\ nFailed = 1
    /\ ticks = <<>>
    /\ map # NULL
    /\ plannedRoute # NO_ROUTE

\* C8: a tick whose feed parses while the map-ready signal has not fired
\* changes neither the viewport centre nor the markers nor the tracking
\* history, and leaves the error slot empty.
C8_NoMapNoOp ==
    [][(TickSucceeds /\ map = NULL) =>
          (UNCHANGED <<center, markers, history>> /\ error' = NULL)]_vars

C8_Witness ==
    /\ lastTick.outcome = "ok"
    /\ map = NULL
    /\ nOkNoMap = 1
    /\ currentLocation.timestamp # NULL
    /\ error = NULL
    /\ center = INITIAL_CENTER
    /\ markers = <<>>
    /\ history = <<>>

\* C9: the toggle leaves the calls in flight as they are; a call that ends
\* while the loop is Idle is applied as any other (on success Location is the
\* parsed one, the error slot is empty and, the callback holding the map,
\* the centre and the marker are at the parsed point and the history has it
\* appended; on failure the error slot holds a message); and no tick is
\* started while the loop is Idle.
C9_LateResultApplied ==
    /\ [][isTracking' # isTracking => ticks' = ticks]_vars
    /\ [][(TickSucceeds /\ ~isTracking) =>
            \E b \in Bodies :
               LET p == ParseKml(b)
               IN  /\ p.ok
                   /\ currentLocation' =
                         [lat |-> p.lat, lng |-> p.lng, timestamp |-> p.timestamp]
                   /\ error' = NULL
                   /\ lastTick'.map # NULL =>
                         /\ center' = <<p.lng, p.lat>>
                         /\ markers'[1] = <<p.lng, p.lat>>
                         /\ history' = Append(history, <<p.lng, p.lat>>)]_vars
    /\ [][(TickFails /\ ~isTracking) => error' # NULL]_vars
    /\ [][TickBegins => isTracking]_vars

C9_Witness ==
    /\ ~isTracking
    /\ lastTick.outcome = "ok"
    /\ lastTick.idle
    /\ lastTick.map # NULL
    /\ nStarted = 1
    /\ history = <<<<1, 0>>>>
    /\ center = <<1, 0>>
    /\ markers = <<<<1, 0>>>>
    /\ currentLocation.lng = 1
    /\ error = NULL

C11_HistoryAppendOnly ==
    [][/\ Len(history') >= Len(history)
       /\ SubSeq(history', 1, Len(history)) = history
       /\ Len(history') <= Len(history) + 1
       /\ Len(history') > Len(history) => TickSucceeds]_vars

C11_Witness ==
    /\ Len(history) = 2
    /\ history[1] # history[2]
    /\ center = history[2]
    /\ nFailed = 0

\* C12: no step of a sync tick (its start, its failure, its success) changes
\* the Route or the data of the "route" source; and a step that changes the
\* Route or the "route" data changes neither the tracking history nor
\* Location, and leaves the "route" source of a ready map holding exactly the
\* new Route's coordinates.
C12_RouteAndHistoryIndependent ==
    /\ [][(TickBegins \/ TickFails \/ TickSucceeds) =>
            UNCHANGED <<plannedRoute, routeData>>]_vars
    /\ [][(plannedRoute' # plannedRoute \/ routeData' # routeData) =>
            /\ UNCHANGED <<history, currentLocation>>
            /\ map # NULL => routeData' = plannedRoute'.coordinates]_vars

C12_Witness ==
    /\ plannedRoute.name = "loop"
    /\ routeData = plannedRoute.coordinates
    /\ Len(history) = 2
    /\ currentLocation.timestamp # NULL
    /\ lastTick.outcome = "ok"

\* The words of the claims about feed documents.  A component is numeric
\* when it is a decimal literal, and then it has a value (in tenths of a
\* degree); a when text is well formed when it is an ISO-8601 instant.
IsDecimal(s) == s \in {"0.1", "0.2"}
DecimalValue(s) == IF s = "0.1" THEN 1 ELSE 2
IsIso8601(s) == s = "2024-01-01T00:00:00Z"
HasBothNodes(b) == b.placemark /\ b.hasCoordinates /\ b.hasWhen
NonNumericLngLat(b) ==
    \/ ~IsDecimal(b.coordinates[1])
    \/ Len(b.coordinates) >= 2 /\ ~IsDecimal(b.coordinates[2])

\* C13: a tick fails with the error of the step that failed: a response
\* without a success status gives the "fetch failed" message, a Placemark
\* without the coordinates node or the when node gives the "malformed feed"
\* message, and a coordinates text whose longitude or latitude component is
\* not numeric gives the "invalid coordinates" message.
C13_ErrorKinds ==
    [][\A i \in DOMAIN ticks :
          /\ FetchSettles(i, "notok") => error' = ERR_STATUS
          /\ \A b \in Bodies :
                TextSettles(i, b) =>
                   /\ (b.placemark /\ ~HasBothNodes(b)) => error' = ERR_STRUCTURE
                   /\ (HasBothNodes(b) /\ NonNumericLngLat(b)) =>
                         error' = ERR_COORDINATES]_vars

\* A valid feed document: a Placemark whose coordinates text is
\* "lon,lat" or "lon,lat,alt" with numeric lon and lat, and whose when text
\* is well formed.
ValidDocument(b) ==
    /\ HasBothNodes(b)
    /\ Len(b.coordinates) >= 2
    /\ IsDecimal(b.coordinates[1])
    /\ IsDecimal(b.coordinates[2])
    /\ IsIso8601(b.when)

ValidBodies == {b \in Bodies : ValidDocument(b)}

\* C14: a tick that receives a valid feed document sets Location to the
\* value of the first component as longitude, the value of the second as
\* latitude and the instant of the when text as timestamp, whatever the
\* third component; and what it pushes to the map, when the callback holds
\* the map, is that (longitude, latitude) pair: the centre and the marker's
\* _lngLat, and the point appended to the tracking history when the tick
\* succeeds.
C14_LocationFromDocument ==
    [][(TickSucceeds \/ TickFailsInMap) =>
       \A i \in DOMAIN ticks, b \in ValidBodies :
          TextSettles(i, b) =>
             LET lng == DecimalValue(b.coordinates[1])
                 lat == DecimalValue(b.coordinates[2])
             IN  /\ currentLocation' =
                       [lat |-> lat, lng |-> lng,
                        timestamp |-> "2024-01-01T00:00:00.000Z"]
                 /\ ticks[i].map # NULL =>
                       /\ center' = <<lng, lat>>
                       /\ markers'[1] = <<lng, lat>>
                       /\ history' \in {history, Append(history, <<lng, lat>>)}
                       /\ TickSucceeds =>
                             history' = Append(history, <<lng, lat>>)]_vars

C14_Witness ==
    /\ currentLocation =
          [lat |-> 2, lng |-> 1, timestamp |-> "2024-01-01T00:00:00.000Z"]
    /\ history = <<<<1, 2>>>>
    /\ center = <<1, 2>>
    /\ markers = <<<<1, 2>>>>
    /\ lastTick.outcome = "ok"

\* A call in flight has been in flight together with another one: another
\* one is in flight still, or the call that ended last ended beside it.
Overlapped == Len(ticks) > 1 \/ (Len(ticks) = 1 /\ lastTick.overlapped)

\* C16: when two ticks overlap, no history update is lost: each tick reads
\* the tracking history and writes it back with its point appended in one
\* step, so the history after a successful overlapped tick whose callback
\* holds the map is the history before it with exactly that tick's point
\* appended, whatever the other tick wrote in between.
C16_OverlapLosesNoPoint ==
    [][(Overlapped /\ TickSucceeds /\ lastTick'.map # NULL) =>
          /\ Len(history') = Len(history) + 1
          /\ history' =
               Append(history, <<currentLocation'.lng, currentLocation'.lat>>)]_vars

\* The first of two overlapping ticks has added its point beside the other,
\* which is in flight still and holds the map: its append is to come.
C16_Witness ==
    /\ Len(ticks) = 1
    /\ ticks[1].map # NULL
    /\ ticks[1].pc = "text"
    /\ lastTick.outcome = "ok"
    /\ lastTick.overlapped
    /\ lastTick.map # NULL
    /\ nFailed = 0
    /\ Len(history) = 1
    /\ history[1] = <<currentLocation.lng, currentLocation.lat>>

\* C17: once the map is ready, Location and the tracking history stay in
\* step: after every tick that succeeds while the map is ready, also one
\* whose fetch began before the map was ready, the last point of the
\* tracking history is the (longitude, latitude) of Location.
C17_HistoryFollowsLocation ==
    [][(TickSucceeds /\ map # NULL) =>
          /\ history' # <<>>
          /\ history'[Len(history')] =
               <<currentLocation'.lng, currentLocation'.lat>>]_vars

\* Successful ticks so far.
nSucceeded == nEnded - nFailed

C15_GetEnvContract ==
    /\ config.pc = "called" =>
          LET value == config.env[config.key]
              r == config.result
          IN  /\ value # UNDEFINED => (~r.threw /\ r.value = value)
              /\ (value = UNDEFINED /\ config.defaultValue # UNDEFINED) =>
                    (~r.threw /\ r.value = config.defaultValue)
              /\ (value = UNDEFINED /\ config.defaultValue = UNDEFINED) =>
                    (r.threw /\ r.message # "")
    /\ config.pc \in {"loaded", "aborted"} =>
          LET token == config.env["MAPBOX_TOKEN"]
              url == config.env["GARMIN_MAPSHARE_URL"]
              e == config.environment
          IN  /\ (config.pc = "aborted") = (token = UNDEFINED)
              /\ e.threw = (token = UNDEFINED)
              /\ token # UNDEFINED =>
                    /\ e.token = token
                    /\ e.mapshareBaseUrl =
                         IF url # UNDEFINED THEN url ELSE DEFAULT_MAPSHARE_URL

============================================================================
